---------------------------- MODULE Spec2Model ----------------------------
(***************************************************************************)
(* A model of overPop, the catalog duplication helper printed in           *)
(* examples/demo4 (performance).ipynb (lines 39-59):                       *)
(*                                                                         *)
(*     def overPop(df, times):                                             *)
(*         df_copy = df.copy()                                             *)
(*         for i in range(times):                                          *)
(*             df_copy = df_copy.append(df_copy, ignore_index=True)        *)
(*         rows = df_copy.shape[0]                                         *)
(*         x = np.random.random_sample((rows,))*15                         *)
(*         y = np.random.random_sample((rows,))*15                         *)
(*         df_copy['ra'] = x                                               *)
(*         df_copy['dec'] = y                                              *)
(*         return df_copy                                                  *)
(*                                                                         *)
(* DataFrames are objects on a heap, so that a name is a reference and an  *)
(* in-place column assignment is visible through every alias.  A frame is  *)
(* a record  [index, obj, pos]:  the row labels, the non-position content  *)
(* of each row (the 15 catalog fields, abstracted to one value) and the    *)
(* position columns present, a function from a subset of {"ra","dec"} to   *)
(* the column's values.                                                    *)
(*                                                                         *)
(* Floating point values are modelled exactly, scaled down: a float has a  *)
(* MantBits-bit significand (53 in the program) and a position is the      *)
(* integer numerator of a fraction over 2^MantBits.                        *)
(***************************************************************************)
EXTENDS Integers, Sequences, FiniteSets

\* ------------------------------------------------------------- bounds
\* Longest base catalog the caller passes.
MaxLen == 2
\* Largest duplication count passed.
MaxTimes == 2
\* Most negative duplication count passed is -MaxNeg.
MaxNeg == 1
\* Calls of overPop made on the same catalog.
MaxCalls == 2
\* Bits of a float's significand and of one random draw (53 in numpy).
MantBits == 4

\* Distinct row contents of the base catalog.
Content == {"a", "b"}

\* ----------------------------------------------------- program constants
\* The side of the square region, in degrees: the literal 15 of lines 53-54.
Width == 15

\* ------------------------------------------------------------ helpers
RECURSIVE Pow2(_)
Pow2(n) == IF n <= 0 THEN 1 ELSE 2 * Pow2(n - 1)

\* One degree, as a numerator over 2^MantBits.
Scale == Pow2(MantBits)

\* Position value of a catalog that already carries positions when it is
\* passed in: outside the jitter region, so an overwrite is observable.
Stale == 360 * Scale

\* The reference of the caller's catalog, and Python's None.
DF == 1
None == 0

\* ----------------------------------------------------------- DataFrame
\* pandas.RangeIndex(n): the labels 0 .. n-1.
RangeIndex(n) == [j \in 1..n |-> j - 1]

\* df.shape[0]: the number of rows.
Shape0(f) == Len(f.index)

\* df.copy(): deep by default; the value of a new object.
Copy(f) == [index |-> f.index, obj |-> f.obj, pos |-> f.pos]

\* A plausible alternative duplication, df.loc[df.index.repeat(2)]: each row
\* followed by its duplicate.
Concat_Repeat(a, b) ==
    LET n == Len(a.obj)
        Rep(s) == [j \in 1..(2 * n) |-> s[(j + 1) \div 2]]
    IN  [index |-> RangeIndex(2 * n),
         obj   |-> Rep(a.obj),
         pos   |-> [c \in DOMAIN a.pos |-> Rep(a.pos[c])]]

\* a.append(b, ignore_index=True): the rows of a followed by the rows of b,
\* relabelled 0 .. n-1.  (overPop only appends frames of equal columns.)
Concat(a, b) ==
    [index |-> RangeIndex(Len(a.obj) + Len(b.obj)),
     obj   |-> a.obj \o b.obj,
     pos   |-> [c \in DOMAIN a.pos |-> a.pos[c] \o b.pos[c]]]

\* f[c] = arr, in place: the column is added, or replaced when present.
SetItem(f, c, arr) ==
    [f EXCEPT !.pos = [k \in (DOMAIN f.pos) \cup {c} |->
                          IF k = c THEN arr ELSE f.pos[k]]]

\* ------------------------------------------------------ numpy, floats
RECURSIVE BitLen(_)
BitLen(n) == IF n <= 0 THEN 0 ELSE 1 + BitLen(n \div 2)

\* Rounding upwards instead of to nearest.
RoundUp(n) ==
    LET e == BitLen(n) - MantBits
        u == Pow2(e)
    IN  IF e <= 0 THEN n ELSE ((n + u - 1) \div u) * u

\* The float nearest to n (ties to even): n keeps its MantBits leading bits.
RoundToFloat(n) ==
    LET e == BitLen(n) - MantBits
        u == Pow2(e)
        q == n \div u
        r == n % u
    IN  IF e <= 0 THEN n
        ELSE IF 2 * r > u \/ (2 * r = u /\ q % 2 = 1) THEN (q + 1) * u
        ELSE q * u

\* The process-wide generator behind np.random: one step of its state.  A
\* full-period congruential generator stands for the Mersenne Twister, so
\* that over all seeds every draw takes every value k / 2^MantBits with
\* 0 <= k < 2^MantBits, the values random_sample can return in [0.0, 1.0).
Advance(s) == (5 * s + 3) % Scale

RECURSIVE Iterate(_, _)
Iterate(s, n) == IF n <= 0 THEN s ELSE Iterate(Advance(s), n - 1)

\* np.random.random_sample((n,)) from state s: n draws; the j-th is the
\* state after j steps, read as a fraction of 2^MantBits.
RandomSample(s, n) == [j \in 1..n |-> Iterate(s, j)]

\* arr * 15, element by element, each product rounded to a float.
TimesWidth(arr) == [j \in DOMAIN arr |-> RoundToFloat(arr[j] * Width)]

\* -------------------------------------------------------------- state
VARIABLES
    heap,      \* the DataFrame objects; heap[DF] is the caller's catalog
    orig,      \* the caller's catalog as it was before the first call
    rng,       \* the state of np.random's global generator
    pc,        \* where overPop is: idle, loop, assign, return, done
    times,     \* overPop's argument
    i,         \* rounds of the for loop completed
    df_copy,   \* overPop's local: a reference into heap
    rows,      \* overPop's local
    x,         \* overPop's local
    y,         \* overPop's local
    result,    \* what the last call returned: a reference, or None
    calls      \* calls made so far

vars == <<heap, orig, rng, pc, times, i, df_copy, rows, x, y, result, calls>>

\* The catalogs a caller passes: 0 .. MaxLen rows, with no position columns
\* (the documented case) or with both, left from an earlier use.
RECURSIVE SeqsOf(_, _)
SeqsOf(S, n) ==
    IF n = 0 THEN {<<>>}
    ELSE {Append(s, e) : s \in SeqsOf(S, n - 1), e \in S}

Catalogs ==
    UNION {
        {[index |-> RangeIndex(n), obj |-> o, pos |-> p] :
            o \in SeqsOf(Content, n),
            p \in {<<>>, [c \in {"ra", "dec"} |-> [j \in 1..n |-> Stale]]}}
        : n \in 0..MaxLen}

Init ==
    /\ \E f \in Catalogs : heap = <<f>> /\ orig = f
    /\ rng \in 0..(Scale - 1)
    /\ pc = "idle"
    /\ times = 0
    /\ i = 0
    /\ df_copy = None
    /\ rows = 0
    /\ x = <<>>
    /\ y = <<>>
    /\ result = None
    /\ calls = 0

\* --------------------------------------------------------------- steps
\* Line 47 without the copy: df_copy = df.
Call_NoCopy ==
    /\ pc \in {"idle", "done"}
    /\ calls < MaxCalls
    /\ \E t \in (0 - MaxNeg)..MaxTimes : times' = t
    /\ heap' = <<heap[DF]>>
    /\ df_copy' = DF
    /\ i' = 0
    /\ result' = None
    /\ calls' = calls + 1
    /\ pc' = "loop"
    /\ UNCHANGED <<orig, rng, rows, x, y>>

\* overPop(df, t) is entered; line 47: df_copy = df.copy().  The objects of
\* an earlier call are no longer referenced and are dropped.
Call ==
    /\ pc \in {"idle", "done"}
    /\ calls < MaxCalls
    /\ \E t \in (0 - MaxNeg)..MaxTimes : times' = t
    /\ heap' = <<heap[DF], Copy(heap[DF])>>
    /\ df_copy' = 2
    /\ i' = 0
    /\ result' = None
    /\ calls' = calls + 1
    /\ pc' = "loop"
    /\ UNCHANGED <<orig, rng, rows, x, y>>

\* Line 49 appending the argument instead: df_copy.append(df, ...).
Loop_AppendDf ==
    /\ pc = "loop"
    /\ i < times
    /\ heap' = Append(heap, Concat(heap[df_copy], heap[DF]))
    /\ df_copy' = Len(heap) + 1
    /\ i' = i + 1
    /\ UNCHANGED <<orig, rng, pc, times, rows, x, y, result, calls>>

\* Lines 48-49, one round: df_copy = df_copy.append(df_copy, ignore_index=True).
\* append returns a new object; range(times) is empty when times <= 0.
Loop ==
    /\ pc = "loop"
    /\ i < times
    /\ heap' = Append(heap, Concat(heap[df_copy], heap[df_copy]))
    /\ df_copy' = Len(heap) + 1
    /\ i' = i + 1
    /\ UNCHANGED <<orig, rng, pc, times, rows, x, y, result, calls>>

\* The loop is over; lines 51-54: rows, x and y.
Draw ==
    /\ pc = "loop"
    /\ ~(i < times)
    /\ rows' = Shape0(heap[df_copy])
    /\ x' = TimesWidth(RandomSample(rng, rows'))
    /\ y' = TimesWidth(RandomSample(Iterate(rng, rows'), rows'))
    /\ rng' = Iterate(rng, 2 * rows')
    /\ pc' = "assign"
    /\ UNCHANGED <<heap, orig, times, i, df_copy, result, calls>>

\* Lines 56-57: df_copy['ra'] = x; df_copy['dec'] = y, on the object itself.
Assign ==
    /\ pc = "assign"
    /\ heap' = [heap EXCEPT ![df_copy] = SetItem(SetItem(@, "ra", x), "dec", y)]
    /\ pc' = "return"
    /\ UNCHANGED <<orig, rng, times, i, df_copy, rows, x, y, result, calls>>

\* Line 59: return df_copy.
Return ==
    /\ pc = "return"
    /\ result' = df_copy
    /\ pc' = "done"
    /\ UNCHANGED <<heap, orig, rng, times, i, df_copy, rows, x, y, calls>>

Next == Call \/ Loop \/ Draw \/ Assign \/ Return

Spec == Init /\ [][Next]_vars

\* ------------------------------------------------------------- claims
\* The frame overPop is working on, once the loop has been left.
LoopLeft == pc \in {"assign", "return", "done"}

Inflated == heap[df_copy]

\* C1: for every catalog df and every times >= 0, the catalog overPop's
\* doubling loop leaves, and the one overPop returns, has exactly
\* len(df) * 2^times rows (one label and one content per row); with
\* times = 0 that is the size of df.
C1_InflateSize ==
    (LoopLeft /\ times >= 0) =>
        /\ Shape0(Inflated) = Len(orig.obj) * Pow2(times)
        /\ Len(Inflated.obj) = Len(orig.obj) * Pow2(times)
        /\ (times = 0 => Shape0(Inflated) = Shape0(orig))
        /\ (pc = "done" => Shape0(heap[result]) = Len(orig.obj) * Pow2(times))

\* A call with two doubling rounds on a catalog of two rows has returned.
C1_Witness ==
    pc = "done" /\ times = 2 /\ Len(orig.obj) = 2 /\ Shape0(heap[result]) = 8

MaxPos == RoundToFloat((Scale - 1) * Width)

InRegion(v) == 0 <= v /\ v < Width * Scale

\* C7: every row of the catalog overPop returns has a position with ra in
\* [0, 15) and dec in [0, 15): both columns are present, have one value per
\* row, hold the values just drawn (whatever positions the input carried),
\* and every value is in range.
C7_PositionsInRegion ==
    pc = "done" =>
        LET f == heap[result]
        IN  /\ DOMAIN f.pos = {"ra", "dec"}
            /\ Len(f.pos["ra"]) = Shape0(f)
            /\ Len(f.pos["dec"]) = Shape0(f)
            /\ f.pos["ra"] = x
            /\ f.pos["dec"] = y
            /\ \A j \in 1..Shape0(f) :
                  InRegion(f.pos["ra"][j]) /\ InRegion(f.pos["dec"][j])

\* A catalog that carried positions has been returned inflated, and one of
\* its rows drew the largest value random_sample can give.
C7_Witness ==
    /\ pc = "done"
    /\ DOMAIN orig.pos = {"ra", "dec"}
    /\ Len(orig.obj) >= 1
    /\ times >= 1
    /\ \E j \in 1..Shape0(heap[result]) : heap[result].pos["ra"][j] = MaxPos

\* C8 (as claimed): a call of overPop with times < 0 fails and returns no
\* catalog.
C8_NegativeTimesFails ==
    (pc = "done" /\ times < 0) => result = None

\* Frame a is a prefix of frame b: b's first rows are a's rows, in order,
\* with the same labels, contents and positions.
IsPrefix(a, b) ==
    /\ Shape0(a) <= Shape0(b)
    /\ SubSeq(b.index, 1, Len(a.index)) = a.index
    /\ SubSeq(b.obj, 1, Len(a.obj)) = a.obj
    /\ DOMAIN a.pos = DOMAIN b.pos
    /\ \A c \in DOMAIN a.pos : SubSeq(b.pos[c], 1, Len(a.pos[c])) = a.pos[c]

\* The first len(df) rows are the rows of df in order, and every row has the
\* content of some row of df.
RowsOfInput(f) ==
    /\ Len(f.obj) >= Len(orig.obj)
    /\ SubSeq(f.obj, 1, Len(orig.obj)) = orig.obj
    /\ \A j \in 1..Len(f.obj) : \E k \in 1..Len(orig.obj) : f.obj[j] = orig.obj[k]

\* C9: inflation is append-only doubling.  Every doubling round leaves the
\* rows it found, unchanged and in order, as a prefix of the new catalog;
\* and at every point from the copy to the return the first len(df) rows of
\* the working catalog are df's rows in order and every row has the content
\* of some row of df (position columns aside).
C9_AppendOnly ==
    /\ [](pc \in {"loop", "assign", "return", "done"} => RowsOfInput(Inflated))
    /\ [][(pc = "loop" /\ pc' = "loop")
            => (IsPrefix(heap[df_copy], heap'[df_copy'])
                /\ Shape0(heap'[df_copy']) = 2 * Shape0(heap[df_copy]))]_vars

\* Two rounds have run on a catalog of two different rows.
C9_Witness ==
    /\ pc = "done"
    /\ i = 2
    /\ Len(orig.obj) = 2
    /\ orig.obj[1] # orig.obj[2]

=============================================================================
